---- MODULE Spec2Model ----
(***************************************************************************)
(* Model of the BTC light client header-chain store of the Babylon         *)
(* contract (contracts/babylon/src/state/btc_light_client.rs).             *)
(*                                                                         *)
(* The four persisted records BTC_HEADER_BASE, BTC_TIP, BTC_HEADERS and    *)
(* BTC_HEIGHTS are the fields of the variable storage.  The two entry      *)
(* points, init and handle_btc_headers_from_babylon, are operators on a    *)
(* storage value that return the storage after the call together with the *)
(* call's result; the actions CallInit and CallHandle apply them to        *)
(* caller supplied batches.                                                *)
(*                                                                         *)
(* Bitcoin headers are drawn from a fixed finite block tree: a raw header  *)
(* is identified by a number, its decoded parent pointer, its per-header   *)
(* work and the outcome of its proof-of-work check are fixed by the raw    *)
(* bytes.  A BtcHeaderInfo carries the raw header, its block hash, its     *)
(* height and its cumulative work as relayed by Babylon: hash, height and  *)
(* work are the ones the raw header has in the block tree.                 *)
(*                                                                         *)
(* utils::btc_light_client (verify_headers, total_work) is not part of the *)
(* sources at hand; both are modelled from the specification's header      *)
(* verification protocol and cumulative-work rule.                         *)
(*                                                                         *)
(* A call runs to completion in one step (the host serialises calls); the  *)
(* variables call and pre keep what was called, its result and the         *)
(* storage it started from until the call returns to the host.  A call     *)
(* that returns an error keeps the writes it made before the error: the    *)
(* light client does not undo them itself.                                 *)
(***************************************************************************)
EXTENDS Integers, Sequences, FiniteSets

\* ------------------------------------------------------------------ bounds

\* longest batch of headers a caller passes to init / handle_new_headers
MaxBatch == 3
\* largest checkpoint_finalization_timeout the configuration may hold
MaxW == 2

\* ------------------------------------------------------- the header universe

\* raw 80-byte headers known to the callers, identified by a number
RawHeaders == 1 .. 8

\* raw headers whose bytes do not deserialize to a BlockHeader
Undecodable == {8}

\* ParentOf[x]: the raw header x's prev_blockhash points at (0: a block that
\* is not among RawHeaders).  1-2-3-4 is a chain, 5 forks off 1, 6 off 3 and
\* 7 off 2.
ParentOf == <<0, 1, 2, 3, 1, 3, 2, 0>>

\* per-header work derived from the header's difficulty target (bits):
\* 5 and 6 carry as much cumulative work as a fifth header after 4 would
HeaderWork == <<1, 1, 1, 1, 4, 2, 1, 1>>

\* raw headers that fail the network's proof-of-work rule
BadPow == {7}

\* block_hash(): double-SHA256 of the raw header, injective on RawHeaders
BlockHash(raw) == 100 + raw

\* babylon_bitcoin::deserialize: the decoded BlockHeader of a raw header
Decodable(raw) == raw \notin Undecodable

Deserialize(raw) ==
    [prev_blockhash |-> BlockHash(ParentOf[raw]),
     work           |-> HeaderWork[raw],
     pow_ok         |-> raw \notin BadPow]

\* absolute height of a raw header in the block tree
RECURSIVE HeightOf(_)
HeightOf(raw) == IF ParentOf[raw] = 0 THEN 1 ELSE HeightOf(ParentOf[raw]) + 1

\* cumulative work from the root of the block tree through the raw header
RECURSIVE CumWork(_)
CumWork(raw) ==
    IF ParentOf[raw] = 0 THEN HeaderWork[raw]
    ELSE CumWork(ParentOf[raw]) + HeaderWork[raw]

\* the BtcHeaderInfo Babylon relays for a raw header
InfoOf(raw) ==
    [header |-> raw,
     hash   |-> BlockHash(raw),
     height |-> HeightOf(raw),
     work   |-> CumWork(raw)]

HeaderInfos == {InfoOf(raw) : raw \in RawHeaders}

\* the batches a caller may submit
Batches == UNION {[1 .. n -> HeaderInfos] : n \in 0 .. MaxBatch}

\* ------------------------------------------------------------------ storage

VARIABLES
    storage,   \* the contract's Storage, the four records of the light client:
               \*   base    BTC_HEADER_BASE  Item: encoded base header or NoBytes
               \*   tip     BTC_TIP          Item: encoded tip header or NoBytes
               \*   headers BTC_HEADERS      Map: hash -> encoded BtcHeaderInfo
               \*   heights BTC_HEIGHTS      Map: hash -> height
    cfg,       \* CONFIG: [checkpoint_finalization_timeout]
    call,      \* the call in progress or just made: [op, batch, result, walk]
    pre,       \* the storage as it was before that call
    first_base, \* history, kept under SpecTracked only: the first header of the
               \* batch of the first successful init (encoded), or NoBytes
    verifier   \* a call of the transaction-inclusion verifier's pure functions:
               \* [fn, arguments, done, result]

vars == <<storage, cfg, call, pre, first_base, verifier>>

\* an absent Item / the empty Map
NoBytes == <<>>
EmptyMap == <<>>

\* prost encode_to_vec / decode of a BtcHeaderInfo: the fields in tag order
Encode(info) == <<info.header, info.hash, info.height, info.work>>

Decode(bytes) ==
    [header |-> bytes[1], hash |-> bytes[2], height |-> bytes[3], work |-> bytes[4]]

\* Map::save / Map::remove
Save(m, k, v) == [x \in (DOMAIN m) \cup {k} |-> IF x = k THEN v ELSE m[x]]

Remove(m, k) == [x \in (DOMAIN m) \ {k} |-> m[x]]

\* results of a call
Ok == [kind |-> "Ok", new_tip_work |-> 0, cur_tip_work |-> 0]

Err(kind) == [kind |-> kind, new_tip_work |-> 0, cur_tip_work |-> 0]

BTCChainWithNotEnoughWork(new_tip_work, cur_tip_work) ==
    [kind         |-> "BTCChainWithNotEnoughWork",
     new_tip_work |-> new_tip_work,
     cur_tip_work |-> cur_tip_work]

\* ------------------------------------------------------------------ getters

is_initialized(s) == s.base # NoBytes

get_base_header(s) == Decode(s.base)

get_tip(s) == Decode(s.tip)

set_base_header(s, base_header) == [s EXCEPT !.base = Encode(base_header)]

set_tip(s, tip) == [s EXCEPT !.tip = Encode(tip)]

\* get_header: [err, info]; info is meaningful when err = "Ok"
get_header(s, hash) ==
    IF hash \notin DOMAIN s.headers
    THEN [err |-> "BTCHeaderNotFoundError", info |-> NoBytes]
    ELSE [err |-> "Ok", info |-> Decode(s.headers[hash])]

\* insert_headers that stores only the first header of the batch (mutant)
insert_headers_FirstOnly(s, new_headers) ==
    IF new_headers = <<>> THEN s
    ELSE LET new_header == Head(new_headers)
         IN  [s EXCEPT
                !.headers = Save(@, new_header.hash, Encode(new_header)),
                !.heights = Save(@, new_header.hash, new_header.height)]

\* insert_headers: save every header and its height, in batch order
RECURSIVE insert_headers(_, _)
insert_headers(s, new_headers) ==
    IF new_headers = <<>> THEN s
    ELSE LET new_header == Head(new_headers)
             s1 == [s EXCEPT
                      !.headers = Save(@, new_header.hash, Encode(new_header)),
                      !.heights = Save(@, new_header.hash, new_header.height)]
         IN  insert_headers(s1, Tail(new_headers))

\* one step of the rollback walk, as remove_headers makes it on the header of
\* the given hash: the removal of its BTC_HEADERS entry, of its BTC_HEIGHTS
\* entry, the decoding of rem_header.header for prev_blockhash, and the
\* get_header that loads the next rem_header
WalkStep(ev, hash) == [ev |-> ev, hash |-> hash]

\* remove_headers that forgets the height index (mutant)
RECURSIVE remove_headers_KeepHeights(_, _, _)
remove_headers_KeepHeights(s, rem_header, parent_header) ==
    IF rem_header.hash = parent_header.hash
    THEN [s |-> s, err |-> "Ok", walk |-> <<>>]
    ELSE LET s1 == [s EXCEPT !.headers = Remove(@, rem_header.hash)]
             removed == <<WalkStep("remove_header", rem_header.hash)>>
         IN  IF ~Decodable(rem_header.header)
             THEN [s |-> s1, err |-> "BTCHeaderDecodeError", walk |-> removed]
             ELSE LET prev == Deserialize(rem_header.header).prev_blockhash
                      got  == get_header(s1, prev)
                      decoded == removed
                                   \o <<WalkStep("extract_parent", rem_header.hash)>>
                  IN  IF got.err # "Ok"
                      THEN [s |-> s1, err |-> got.err, walk |-> decoded]
                      ELSE LET r == remove_headers_KeepHeights(s1, got.info,
                                                               parent_header)
                           IN  [r EXCEPT !.walk = decoded
                                                    \o <<WalkStep("load", prev)>>
                                                    \o @]

\* remove_headers that decodes the visited header before it removes its
\* entries (mutant)
RECURSIVE remove_headers_DecodeFirst(_, _, _)
remove_headers_DecodeFirst(s, rem_header, parent_header) ==
    IF rem_header.hash = parent_header.hash
    THEN [s |-> s, err |-> "Ok", walk |-> <<>>]
    ELSE IF ~Decodable(rem_header.header)
         THEN [s |-> s, err |-> "BTCHeaderDecodeError", walk |-> <<>>]
         ELSE LET prev == Deserialize(rem_header.header).prev_blockhash
                  s1 == [s EXCEPT !.headers = Remove(@, rem_header.hash),
                                  !.heights = Remove(@, rem_header.hash)]
                  got == get_header(s1, prev)
                  removed == <<WalkStep("extract_parent", rem_header.hash),
                               WalkStep("remove_header", rem_header.hash),
                               WalkStep("remove_height", rem_header.hash)>>
              IN  IF got.err # "Ok"
                  THEN [s |-> s1, err |-> got.err, walk |-> removed]
                  ELSE LET r == remove_headers_DecodeFirst(s1, got.info,
                                                           parent_header)
                       IN  [r EXCEPT !.walk = removed
                                                \o <<WalkStep("load", prev)>>
                                                \o @]

\* remove_headers: walk back from tip_header until parent_header's hash is
\* met; each visited header is removed from both maps, then the in-memory
\* copy is decoded for its parent hash and the parent is loaded.
\* Returns [s, err, walk]: the store as left behind, "Ok" or the error, and
\* the steps of the walk in the order they were made.
RECURSIVE remove_headers(_, _, _)
remove_headers(s, rem_header, parent_header) ==
    IF rem_header.hash = parent_header.hash
    THEN [s |-> s, err |-> "Ok", walk |-> <<>>]
    ELSE LET s1 == [s EXCEPT !.headers = Remove(@, rem_header.hash),
                             !.heights = Remove(@, rem_header.hash)]
             removed == <<WalkStep("remove_header", rem_header.hash),
                          WalkStep("remove_height", rem_header.hash)>>
         IN  IF ~Decodable(rem_header.header)
             THEN [s |-> s1, err |-> "BTCHeaderDecodeError", walk |-> removed]
             ELSE LET prev == Deserialize(rem_header.header).prev_blockhash
                      got  == get_header(s1, prev)
                      decoded == removed
                                   \o <<WalkStep("extract_parent", rem_header.hash)>>
                  IN  IF got.err # "Ok"
                      THEN [s |-> s1, err |-> got.err, walk |-> decoded]
                      ELSE LET r == remove_headers(s1, got.info, parent_header)
                           IN  [r EXCEPT !.walk = decoded
                                                    \o <<WalkStep("load", prev)>>
                                                    \o @]

\* ------------------------------------------------- utils::btc_light_client

\* total_work: the cumulative work carried by a BtcHeaderInfo
total_work(info) == info.work

\* verify_headers: for each new header in order: decode it, its parent hash
\* must be the hash of the header before it (first_header for the first one),
\* and it must pass proof-of-work.  "Ok" or the first error.
RECURSIVE verify_headers(_, _)
verify_headers(first_header, new_headers) ==
    IF new_headers = <<>> THEN "Ok"
    ELSE LET new_header == Head(new_headers)
         IN  IF ~Decodable(new_header.header) THEN "BTCHeaderDecodeError"
             ELSE LET btc_header == Deserialize(new_header.header)
                  IN  IF btc_header.prev_blockhash # first_header.hash
                         \/ ~btc_header.pow_ok
                      THEN "BTCHeaderError"
                      ELSE verify_headers(new_header, Tail(new_headers))

\* ---------------------------------------------------------------------- init

\* the length check of init, off by one (mutant)
TooFewHeaders_OffByOne(n, w) == n < w

\* the length check of init: fewer than w + 1 headers
TooFewHeaders(n, w) == n < w + 1

\* init: [s, res]
init(s, w, headers) ==
    IF TooFewHeaders(Len(headers), w) THEN [s |-> s, res |-> Err("InitError")]
    ELSE IF headers = <<>> THEN [s |-> s, res |-> Err("InitError")]
    ELSE LET base_header == Head(headers)
         IN  IF ~Decodable(base_header.header)
             THEN [s |-> s, res |-> Err("BTCHeaderDecodeError")]
             ELSE IF ~Deserialize(base_header.header).pow_ok
             THEN [s |-> s, res |-> Err("BTCHeaderError")]
             ELSE LET v == verify_headers(base_header, Tail(headers))
                  IN  IF v # "Ok" THEN [s |-> s, res |-> Err(v)]
                      ELSE [s   |-> set_tip(
                                      insert_headers(
                                        set_base_header(s, base_header), headers),
                                      headers[Len(headers)]),
                            res |-> Ok]

\* ------------------------------------------- handle_btc_headers_from_babylon

\* the fork-choice comparison accepting ties (mutant)
NotEnoughWork_TieAccepted(new_tip_work, cur_tip_work) == new_tip_work < cur_tip_work

\* the fork-choice comparison left out (mutant)
NotEnoughWork_Never(new_tip_work, cur_tip_work) == FALSE

\* the fork-choice comparison: the candidate tip does not beat the current tip
NotEnoughWork(new_tip_work, cur_tip_work) == new_tip_work <= cur_tip_work

\* the extension branch without the tip update (mutant)
handle_extension_NoTip(s, cur_tip, new_headers) ==
    LET v == verify_headers(cur_tip, new_headers)
    IN  IF v # "Ok" THEN [s |-> s, res |-> Err(v)]
        ELSE [s |-> insert_headers(s, new_headers), res |-> Ok]

\* the extension branch inserting before it verifies (mutant)
handle_extension_InsertFirst(s, cur_tip, new_headers) ==
    LET s1 == insert_headers(s, new_headers)
        v  == verify_headers(cur_tip, new_headers)
    IN  IF v # "Ok" THEN [s |-> s1, res |-> Err(v)]
        ELSE [s   |-> set_tip(s1, new_headers[Len(new_headers)]),
              res |-> Ok]

\* the extension branch: the first new header's parent is the current tip
handle_extension(s, cur_tip, new_headers) ==
    LET v == verify_headers(cur_tip, new_headers)
    IN  IF v # "Ok" THEN [s |-> s, res |-> Err(v)]
        ELSE [s   |-> set_tip(insert_headers(s, new_headers),
                              new_headers[Len(new_headers)]),
              res |-> Ok]

\* the fork branch: the first new header's parent is not the current tip
handle_fork(s, cur_tip, parent_hash, new_headers) ==
    LET got == get_header(s, parent_hash)
    IN  IF got.err # "Ok" THEN [s |-> s, res |-> Err(got.err)]
        ELSE
        LET fork_parent == got.info
            v == verify_headers(fork_parent, new_headers)
        IN  IF v # "Ok" THEN [s |-> s, res |-> Err(v)]
            ELSE
            LET new_tip      == new_headers[Len(new_headers)]
                new_tip_work == total_work(new_tip)
                cur_tip_work == total_work(cur_tip)
            IN  IF NotEnoughWork(new_tip_work, cur_tip_work)
                THEN [s   |-> s,
                      res |-> BTCChainWithNotEnoughWork(new_tip_work, cur_tip_work)]
                ELSE
                LET s1 == set_tip(insert_headers(s, new_headers), new_tip)
                    r  == remove_headers(s1, cur_tip, fork_parent)
                IN  [s    |-> r.s,
                     res  |-> IF r.err = "Ok" THEN Ok ELSE Err(r.err),
                     walk |-> r.walk]

\* handle_btc_headers_from_babylon: [s, res]
handle_btc_headers_from_babylon(s, new_headers) ==
    IF s.tip = NoBytes THEN [s |-> s, res |-> Err("StdError")]
    ELSE
    LET cur_tip == get_tip(s)
    IN  IF new_headers = <<>> THEN [s |-> s, res |-> Err("BTCHeaderEmpty")]
        ELSE
        LET first_new_header == Head(new_headers)
        IN  IF ~Decodable(first_new_header.header)
            THEN [s |-> s, res |-> Err("BTCHeaderDecodeError")]
            ELSE
            LET parent_hash == Deserialize(first_new_header.header).prev_blockhash
            IN  IF parent_hash = cur_tip.hash
                THEN handle_extension(s, cur_tip, new_headers)
                ELSE handle_fork(s, cur_tip, parent_hash, new_headers)

\* ------------------------------------- transaction-inclusion verifier: data
\* utils/bitcoin.rs.  Byte strings are sequences of u8 values.  The widths
\* imported from babylon_proto are scaled down, keeping their relations:
\* HEADER_LEN = TAG_LEN + 1 (the tag and the version/part byte) and both part
\* lengths longer than HEADER_LEN.

\* longest OP_RETURN payload of a transaction handed to extract_checkpoint_data
MaxPayload == 5

\* longest proof, in bytes, of a TransactionInfo handed to parse_tx_info
MaxProof == 4

TAG_LEN == 2

HEADER_LEN == TAG_LEN + 1

FIRST_PART_LEN == 5

SECOND_PART_LEN == 4

CURRENT_VERSION == 0

MERKLE_PROOF_ELEM_SIZE == 2

\* the u8 values payload bytes are drawn from: as version/part byte they are
\* part 0 version 0, part 0 version 1, part 1 version 0, part 1 version 1 and
\* part 2 version 0
PayloadBytes == {0, 1, 16, 17, 32}

\* the u8 values tag and proof bytes are drawn from
TagBytes == {0, 1}

BytesUpTo(alphabet, n) == UNION {[1 .. k -> alphabet] : k \in 0 .. n}

\* part_index values (usize) a caller passes
PartIndexes == {0, 1, 2}

\* results of the verifier's functions: Ok(value), Err(String), or a panic of
\* an out-of-range slice or index
OkValue(value) == [kind |-> "Ok", msg |-> "", value |-> value]

ErrString(msg) == [kind |-> "Err", msg |-> msg, value |-> <<>>]

Panic == [kind |-> "Panic", msg |-> "", value |-> <<>>]

\* a decoded Transaction: its identity (what its txid hashes) and the payload
\* of its null-data output, if it has one
NoOpReturn == [present |-> FALSE, data |-> <<>>]

OpReturn(data) == [present |-> TRUE, data |-> data]

Transaction(id, op_return) == [id |-> id, op_return |-> op_return]

\* babylon_bitcoin::op_return::extract_op_return_data: the payload of the
\* null-data output, an error if the transaction has none
extract_op_return_data(btc_tx) ==
    IF btc_tx.op_return.present
    THEN OkValue(btc_tx.op_return.data)
    ELSE ErrString("no OP_RETURN output")

\* ------------------------------------------------- extract_checkpoint_data

\* version > CURRENT_VERSION, with the check left out
VersionTooHigh_Never(version) == FALSE

\* version > CURRENT_VERSION
VersionTooHigh(version) == version > CURRENT_VERSION

extract_checkpoint_data(btc_tx, tag, idx) ==
    LET r == extract_op_return_data(btc_tx)
    IN  IF r.kind # "Ok" THEN r
        ELSE
        LET op_return_data == r.value
            len == Len(op_return_data)
        IN  IF idx = 0 /\ len # FIRST_PART_LEN
            THEN ErrString("invalid length. First part")
            ELSE IF idx = 1 /\ len # SECOND_PART_LEN
            THEN ErrString("invalid length. Second part")
            \* op_return_data[0..TAG_LEN] panics when the payload is shorter
            ELSE IF TAG_LEN > len THEN Panic
            ELSE IF tag # SubSeq(op_return_data, 1, TAG_LEN)
            THEN ErrString("data does not have expected tag")
            \* op_return_data[TAG_LEN] panics when there is no such byte
            ELSE IF TAG_LEN >= len THEN Panic
            ELSE
            LET ver_half == op_return_data[TAG_LEN + 1]
                version == ver_half % 16
                part == ver_half \div 16
            IN  IF VersionTooHigh(version)
                THEN ErrString("header have invalid version")
                ELSE IF idx # part
                THEN ErrString("header have invalid part number")
                \* op_return_data[HEADER_LEN..len] panics when HEADER_LEN > len
                ELSE IF HEADER_LEN > len THEN Panic
                ELSE OkValue(SubSeq(op_return_data, HEADER_LEN + 1, len))

\* ------------------------------------------------------------ parse_tx_info

\* raw transaction bytes a TransactionInfo carries; UndecodableTx does not
\* deserialize per the Bitcoin wire format
TxBytes == {1, 2, 3}

UndecodableTx == {3}

\* babylon_bitcoin::deserialize of the transaction bytes: transaction 1 carries
\* a first-part checkpoint payload, transaction 2 has no null-data output
deserialize_tx(bytes) ==
    IF bytes \in UndecodableTx
    THEN ErrString("decode")
    ELSE OkValue(Transaction(bytes,
                             IF bytes = 1 THEN OpReturn(<<0, 1, 0, 1, 1>>)
                                          ELSE NoOpReturn))

\* Hashes are byte strings.  The double-SHA256 of a transaction and of a pair
\* of hashes are modelled as collision free: the hash spells out what was
\* hashed.
Txid(btc_tx) == <<5, btc_tx.id>>

HashPair(left, right) == <<9>> \o left \o <<8>> \o right \o <<7>>

\* a BlockHeader of the verifier: its merkle_root and the rest of its fields
BlockHeader(merkle_root, nonce) == [merkle_root |-> merkle_root, nonce |-> nonce]

\* BlockHeader::block_hash, collision free
block_hash(btc_header) == <<4>> \o btc_header.merkle_root \o <<6, btc_header.nonce>>

\* proof_bytes.chunks_exact(MERKLE_PROOF_ELEM_SIZE): the full chunks
RECURSIVE chunks_exact(_)
chunks_exact(proof_bytes) ==
    IF Len(proof_bytes) < MERKLE_PROOF_ELEM_SIZE
    THEN <<>>
    ELSE <<SubSeq(proof_bytes, 1, MERKLE_PROOF_ELEM_SIZE)>>
         \o chunks_exact(SubSeq(proof_bytes, MERKLE_PROOF_ELEM_SIZE + 1,
                                Len(proof_bytes)))

\* and the bytes left over
remainder(proof_bytes) ==
    SubSeq(proof_bytes,
           Len(proof_bytes) - (Len(proof_bytes) % MERKLE_PROOF_ELEM_SIZE) + 1,
           Len(proof_bytes))

\* the root implied by a proof: fold the current hash with each sibling, the
\* sibling on the right when the index is even at this level, on the left
\* when it is odd
RECURSIVE MerkleFold(_, _, _)
MerkleFold(current, proof, tx_idx) ==
    IF proof = <<>>
    THEN current
    ELSE MerkleFold(IF tx_idx % 2 = 0
                    THEN HashPair(current, proof[1])
                    ELSE HashPair(proof[1], current),
                    Tail(proof), tx_idx \div 2)

\* babylon_bitcoin::merkle::verify_merkle_proof
verify_merkle_proof(btc_tx, proof, tx_idx, root) ==
    MerkleFold(Txid(btc_tx), proof, tx_idx) = root

\* the tx key's hash against the header's hash, with the check left out
header_matches_Always(btc_header, header_hash) == TRUE

\* btc_header.block_hash().to_vec().eq(&header_hash)
header_matches(btc_header, header_hash) == block_hash(btc_header) = header_hash

\* Option<TransactionKey>
NoKey == [present |-> FALSE, index |-> 0, hash |-> <<>>]

TransactionKey(index, hash) == [present |-> TRUE, index |-> index, hash |-> hash]

parse_tx_info(tx_info, btc_header) ==
    LET root == btc_header.merkle_root
        proof_bytes == tx_info.proof
    IN  IF remainder(proof_bytes) # <<>>
        THEN ErrString("proof has a remainder")
        ELSE
        LET proof == chunks_exact(proof_bytes)
            tx_key_res == tx_info.key
        IN  IF ~tx_key_res.present
            THEN ErrString("empty tx key")
            ELSE
            LET header_hash == tx_key_res.hash
                tx_idx == tx_key_res.index
            IN  IF ~header_matches(btc_header, header_hash)
                THEN ErrString("BTC header does not match")
                ELSE
                LET btc_tx_res == deserialize_tx(tx_info.transaction)
                IN  IF btc_tx_res.kind # "Ok"
                    THEN ErrString("failed to decode BTC tx")
                    ELSE IF ~verify_merkle_proof(btc_tx_res.value, proof,
                                                 tx_idx, root)
                    THEN ErrString("failed to verify Bitcoin Merkle proof")
                    ELSE OkValue(btc_tx_res.value)

\* ------------------------------------------------- verifier: inputs drawn

\* transaction indexes a key names
TxIndexes == 0 .. 3

\* proofs of up to two siblings for transaction 1, used to build headers whose
\* merkle_root some proof can reach
GenuineProofs == {<<>>, <<<<0, 1>>>>, <<<<0, 1>>, <<1, 0>>>>}

MerkleRoots ==
    {MerkleFold(Txid(deserialize_tx(1).value), proof, tx_idx) :
        proof \in GenuineProofs, tx_idx \in TxIndexes}

VerifierHeaders == {BlockHeader(root, 0) : root \in MerkleRoots}

TransactionKeys ==
    {NoKey} \cup {TransactionKey(index, block_hash(btc_header)) :
                     index \in TxIndexes, btc_header \in VerifierHeaders}

TransactionInfos ==
    [key : TransactionKeys, transaction : TxBytes,
     proof : BytesUpTo(TagBytes, MaxProof)]

\* transactions handed to extract_checkpoint_data: every payload up to
\* MaxPayload bytes, and a transaction without a null-data output
ExtractTransactions ==
    {Transaction(1, NoOpReturn)}
        \cup {Transaction(1, OpReturn(data)) :
                 data \in BytesUpTo(PayloadBytes, MaxPayload)}

Tags == BytesUpTo(TagBytes, TAG_LEN)

\* a call of one of the verifier's functions: its arguments, and its result
\* once it was made
NoResult == [kind |-> "none", msg |-> "", value |-> <<>>]

NoVerifierCall ==
    [fn |-> "none", btc_tx |-> Transaction(0, NoOpReturn), tag |-> <<>>,
     idx |-> 0, tx_info |-> [key |-> NoKey, transaction |-> 0, proof |-> <<>>],
     btc_header |-> BlockHeader(<<>>, 0), done |-> FALSE, result |-> NoResult]

ExtractCall(btc_tx, tag, idx) ==
    [NoVerifierCall EXCEPT !.fn = "extract_checkpoint_data",
                           !.btc_tx = btc_tx, !.tag = tag, !.idx = idx]

ParseCall(tx_info, btc_header) ==
    [NoVerifierCall EXCEPT !.fn = "parse_tx_info",
                           !.tx_info = tx_info, !.btc_header = btc_header]

\* ------------------------------------------------------------ state machine

NoCall == [op |-> "none", batch |-> <<>>, result |-> Ok, walk |-> <<>>]

NoStore ==
    [base |-> NoBytes, tip |-> NoBytes, headers |-> EmptyMap, heights |-> EmptyMap]

\* empty storage with CONFIG saved, checkpoint_finalization_timeout >= 1
Init ==
    /\ storage = NoStore
    /\ cfg \in [checkpoint_finalization_timeout : 1 .. MaxW]
    /\ call = NoCall
    /\ pre = NoStore
    /\ first_base = NoBytes
    /\ verifier = NoVerifierCall

\* the steps of the rollback walk a call made: only an accepted fork makes any
WalkOf(out) == IF "walk" \in DOMAIN out THEN out.walk ELSE <<>>

\* the host makes one call at a time; the storage becomes out.s and the call,
\* its result and the storage it started from are recorded until it returns
Commit(op, batch, out) ==
    /\ storage' = out.s
    /\ call' = [op |-> op, batch |-> batch, result |-> out.res,
                walk |-> WalkOf(out)]
    /\ pre' = storage
    /\ UNCHANGED <<cfg, verifier>>

CallInit ==
    /\ call = NoCall
    /\ \E headers \in Batches :
           Commit("init", headers,
                  init(storage, cfg.checkpoint_finalization_timeout, headers))
    /\ UNCHANGED first_base

\* CallInit that also remembers the first successful init's first header
CallInitTracked ==
    /\ call = NoCall
    /\ \E headers \in Batches :
           LET out == init(storage, cfg.checkpoint_finalization_timeout, headers)
           IN  /\ Commit("init", headers, out)
               /\ first_base' = IF first_base = NoBytes /\ out.res = Ok
                                 THEN Encode(headers[1])
                                 ELSE first_base

CallHandle ==
    /\ call = NoCall
    /\ \E new_headers \in Batches :
           Commit("handle", new_headers,
                  handle_btc_headers_from_babylon(storage, new_headers))
    /\ UNCHANGED first_base

\* the call returns to the host: the store stays as the call left it
Return ==
    /\ call # NoCall
    /\ call' = NoCall
    /\ pre' = NoStore
    /\ UNCHANGED <<storage, cfg, first_base, verifier>>

Next == CallInit \/ CallHandle \/ Return

Spec == Init /\ [][Next]_vars

\* the same machine with the history variable first_base kept
NextTracked == CallInitTracked \/ CallHandle \/ Return

SpecTracked == Init /\ [][NextTracked]_vars

\* the verifier's functions are pure: a caller holding a transaction, a proof
\* and a header calls them with no storage involved
InitVerifier ==
    /\ storage = NoStore
    /\ cfg = [checkpoint_finalization_timeout |-> 1]
    /\ call = NoCall
    /\ pre = NoStore
    /\ first_base = NoBytes
    /\ \/ \E btc_tx \in ExtractTransactions, tag \in Tags, idx \in PartIndexes :
              verifier = ExtractCall(btc_tx, tag, idx)
       \/ \E tx_info \in TransactionInfos, btc_header \in VerifierHeaders :
              verifier = ParseCall(tx_info, btc_header)

CallExtractCheckpointData ==
    /\ verifier.fn = "extract_checkpoint_data"
    /\ ~verifier.done
    /\ verifier' = [verifier EXCEPT
                       !.done = TRUE,
                       !.result = extract_checkpoint_data(verifier.btc_tx,
                                                          verifier.tag,
                                                          verifier.idx)]
    /\ UNCHANGED <<storage, cfg, call, pre, first_base>>

CallParseTxInfo ==
    /\ verifier.fn = "parse_tx_info"
    /\ ~verifier.done
    /\ verifier' = [verifier EXCEPT
                       !.done = TRUE,
                       !.result = parse_tx_info(verifier.tx_info,
                                                verifier.btc_header)]
    /\ UNCHANGED <<storage, cfg, call, pre, first_base>>

NextVerifier == CallExtractCheckpointData \/ CallParseTxInfo

SpecVerifier == InitVerifier /\ [][NextVerifier]_vars

\* ------------------------------------------------------- claims: vocabulary

w == cfg.checkpoint_finalization_timeout

Succeeded == call.result.kind = "Ok"

Last(seq) == seq[Len(seq)]

\* the hashes of a batch
HashesOf(batch) == {batch[i].hash : i \in 1 .. Len(batch)}

\* every header of the batch decodes, passes proof-of-work and names as its
\* parent the header before it (the hash first_hash for the first one)
LinkedFrom(first_hash, batch) ==
    \A i \in 1 .. Len(batch) :
        /\ Decodable(batch[i].header)
        /\ Deserialize(batch[i].header).pow_ok
        /\ Deserialize(batch[i].header).prev_blockhash
              = (IF i = 1 THEN first_hash ELSE batch[i - 1].hash)

\* a batch init accepts as a chain: H[0] passes proof-of-work, the rest links
ValidChain(batch) ==
    \/ batch = <<>>
    \/ /\ Decodable(batch[1].header)
       /\ Deserialize(batch[1].header).pow_ok
       /\ LinkedFrom(batch[1].hash, Tail(batch))

\* every header of the batch is retrievable by hash, with its height indexed
AllQueryable(s, batch) ==
    \A i \in 1 .. Len(batch) :
        /\ get_header(s, batch[i].hash) = [err |-> "Ok", info |-> batch[i]]
        /\ batch[i].hash \in DOMAIN s.heights
        /\ s.heights[batch[i].hash] = batch[i].height

\* the hashes of a raw header and of all its ancestors in the block tree
RECURSIVE ChainOf(_)
ChainOf(raw) ==
    IF raw = 0 THEN {} ELSE {BlockHash(raw)} \cup ChainOf(ParentOf[raw])

\* the call is handle_new_headers on an initialized store with a batch whose
\* first header decodes
HandleCase ==
    /\ call.op = "handle"
    /\ is_initialized(pre)
    /\ call.batch # <<>>
    /\ Decodable(call.batch[1].header)

\* the parent hash named by the first header of the batch
FirstParent == Deserialize(call.batch[1].header).prev_blockhash

\* the call is a verified fork batch rooted at a stored header other than the tip
ForkCase ==
    /\ HandleCase
    /\ FirstParent # get_tip(pre).hash
    /\ FirstParent \in DOMAIN pre.headers
    /\ LinkedFrom(FirstParent, call.batch)

\* ------------------------------------------------------------------- claims

\* C1: once init has succeeded, any later call of init fails and leaves the
\* base header, the tip, the header index and the height index unchanged.
C1_ReinitFails ==
    (call.op = "init" /\ is_initialized(pre))
        => (~Succeeded /\ storage = pre)

\* C2: for a batch H that is a valid chain, init(H) on an uninitialized store
\* succeeds if and only if len(H) >= w + 1, and when it fails nothing is
\* written.
C2_InitIffEnoughHeaders ==
    (call.op = "init" /\ ~is_initialized(pre) /\ ValidChain(call.batch))
        => /\ Succeeded <=> Len(call.batch) >= w + 1
           /\ ~Succeeded => storage = pre

\* C2 witness: a valid chain of exactly w + 1 headers initialised an empty store
C2_Witness ==
    /\ call.op = "init"
    /\ ~is_initialized(pre)
    /\ ValidChain(call.batch)
    /\ Len(call.batch) = w + 1
    /\ Succeeded
    /\ storage # pre

\* C3: after a successful init(H) the base header is H[0], the tip is H[last],
\* every header of H is retrievable by hash with its height indexed, and no
\* other key is present in either index.
C3_InitPostcondition ==
    (call.op = "init" /\ Succeeded)
        => /\ get_base_header(storage) = call.batch[1]
           /\ get_tip(storage) = Last(call.batch)
           /\ AllQueryable(storage, call.batch)
           /\ DOMAIN storage.headers = HashesOf(call.batch)
           /\ DOMAIN storage.heights = HashesOf(call.batch)

\* C4: on an initialized store with tip T, for a non-empty batch N whose first
\* header's parent is hash(T), the call succeeds iff every link of N starting
\* from T is valid; on success the tip is N[last] and all of N is queryable.
C4_Extension ==
    (HandleCase /\ FirstParent = get_tip(pre).hash)
        => /\ Succeeded <=> LinkedFrom(get_tip(pre).hash, call.batch)
           /\ Succeeded => /\ get_tip(storage) = Last(call.batch)
                           /\ AllQueryable(storage, call.batch)

\* C4 witness: a batch of two or more headers extended the tip
C4_Witness ==
    /\ HandleCase
    /\ FirstParent = get_tip(pre).hash
    /\ Len(call.batch) >= 2
    /\ Succeeded
    /\ get_tip(storage) = Last(call.batch)

\* C5: a verified fork batch F rooted at a stored header other than the tip
\* whose last header has cumulative work less than or equal to the tip's is
\* rejected with the insufficient-work error carrying (candidate work, tip
\* work), and the tip and both indices are as before the call.
C5_ForkRejected ==
    (ForkCase /\ CumWork(Last(call.batch).header) <= CumWork(get_tip(pre).header))
        => /\ call.result =
                 BTCChainWithNotEnoughWork(CumWork(Last(call.batch).header),
                                           CumWork(get_tip(pre).header))
           /\ storage = pre

\* C5 witness: a fork on another branch with exactly the tip's work was rejected
C5_Witness ==
    /\ ForkCase
    /\ Last(call.batch).hash # get_tip(pre).hash
    /\ CumWork(Last(call.batch).header) = CumWork(get_tip(pre).header)
    /\ call.result.kind = "BTCChainWithNotEnoughWork"
    /\ storage = pre

\* the hashes on the parent-pointer path from raw back to, excluding, stop
RECURSIVE BranchBackTo(_, _)
BranchBackTo(raw, stop) ==
    IF raw = 0 \/ BlockHash(raw) = stop THEN {}
    ELSE {BlockHash(raw)} \cup BranchBackTo(ParentOf[raw], stop)

\* C6: a verified fork batch F rooted at a stored fork point P (an ancestor of
\* the tip, not the tip) with strictly more cumulative work than the tip is
\* accepted: afterwards the tip is F[last], no header on the old branch from
\* the old tip back to but excluding P is in either index, and P is still
\* retrievable.
C6_ForkAccepted ==
    (/\ ForkCase
     /\ FirstParent \in ChainOf(get_tip(pre).header)
     /\ CumWork(Last(call.batch).header) > CumWork(get_tip(pre).header))
        => /\ get_tip(storage) = Last(call.batch)
           /\ \A h \in BranchBackTo(get_tip(pre).header, FirstParent) :
                 /\ h \notin DOMAIN storage.headers
                 /\ h \notin DOMAIN storage.heights
           /\ FirstParent \in DOMAIN storage.headers

\* the hashes on the path from the base header to the tip of a store (empty
\* when the base is no ancestor of the tip)
PathBaseToTip(s) ==
    LET tipChain  == ChainOf(get_tip(s).header)
        baseChain == ChainOf(get_base_header(s).header)
    IN  IF get_base_header(s).hash \in tipChain
        THEN (tipChain \ baseChain) \cup {get_base_header(s).hash}
        ELSE {}

\* C7: no call of handle_new_headers deletes a header that lies on the path
\* from the base header to the new tip.
C7_DeletesOnlyLosingFork ==
    (call.op = "handle" /\ is_initialized(pre))
        => \A h \in (DOMAIN pre.headers) \ (DOMAIN storage.headers) :
              h \notin PathBaseToTip(storage)

\* C8: once the store is initialized, the tip record refers to a header whose
\* hash is a key of the header index.
C8_TipStored ==
    is_initialized(storage) => get_tip(storage).hash \in DOMAIN storage.headers

\* C8 witness: an accepted fork moved the tip and removed the old branch
C8_Witness ==
    /\ ForkCase
    /\ Succeeded
    /\ get_tip(pre).hash \notin DOMAIN storage.headers
    /\ get_tip(storage) = Last(call.batch)
    /\ get_tip(storage).hash \in DOMAIN storage.headers

\* C9: the header index and the height index have the same keys, and the
\* height stored for a key is the height field of the header stored for it.
C9_IndicesInLockstep ==
    /\ DOMAIN storage.headers = DOMAIN storage.heights
    /\ \A h \in DOMAIN storage.headers :
          storage.heights[h] = Decode(storage.headers[h]).height

\* C9 witness: an accepted fork inserted headers and removed two or more
C9_Witness ==
    /\ ForkCase
    /\ Succeeded
    /\ Cardinality((DOMAIN pre.headers) \ (DOMAIN storage.headers)) >= 2
    /\ HashesOf(call.batch) \subseteq DOMAIN storage.heights

\* C10: a call that fails on a caller-input error found before the fork
\* choice (too few or no headers, an undecodable header, a broken link or a
\* failed proof-of-work anywhere in the batch, a first header whose parent is
\* neither the tip nor stored) has written nothing.
C10_ValidatedBeforeWrite ==
    /\ (call.op = "init"
        /\ call.result.kind \in {"InitError", "BTCHeaderDecodeError", "BTCHeaderError"})
          => storage = pre
    /\ (call.op = "handle"
        /\ call.result.kind \in {"BTCHeaderEmpty", "BTCHeaderDecodeError", "BTCHeaderError"})
          => storage = pre
    /\ (HandleCase
        /\ call.result.kind = "BTCHeaderNotFoundError"
        /\ FirstParent # get_tip(pre).hash
        /\ FirstParent \notin DOMAIN pre.headers)
          => storage = pre

\* C10 witness: an extension batch whose first link is valid and whose later
\* link or proof-of-work is not was refused
C10_Witness ==
    /\ HandleCase
    /\ FirstParent = get_tip(pre).hash
    /\ Deserialize(call.batch[1].header).pow_ok
    /\ Len(call.batch) >= 2
    /\ call.result.kind = "BTCHeaderError"
    /\ storage = pre

\* C11: handle_new_headers never changes the base header record, and the
\* base header it leaves is the first header of the batch given to the first
\* successful init.
C11_BaseFixedByFirstInit ==
    (call.op = "handle" /\ is_initialized(pre))
        => /\ storage.base = pre.base
           /\ get_base_header(storage) = Decode(first_base)

\* the stored headers, decoded
StoredInfos(s) == {Decode(s.headers[k]) : k \in DOMAIN s.headers}

\* the hash a stored header names as its parent
ParentHashOf(info) == Deserialize(info.header).prev_blockhash

\* C12: every header stored in the header index other than the base header has
\* its parent (the stored header whose hash is its previous-block-hash) in the
\* index, and its height is the parent's height plus 1.
C12_HeightIsParentPlusOne ==
    is_initialized(storage)
        => \A info \in StoredInfos(storage) :
              info.hash # get_base_header(storage).hash
                  => /\ ParentHashOf(info) \in DOMAIN storage.headers
                     /\ info.height
                          = Decode(storage.headers[ParentHashOf(info)]).height + 1

\* ---------------------------------------------------- claims: the verifier

\* extract_checkpoint_data was called on a transaction with a null-data output
ExtractCase ==
    /\ verifier.fn = "extract_checkpoint_data"
    /\ verifier.done
    /\ verifier.btc_tx.op_return.present

\* the payload handed to extract_checkpoint_data
Payload == verifier.btc_tx.op_return.data

\* the payload's length is the one its part_index requires
LengthMatchesPart ==
    \/ verifier.idx = 0 /\ Len(Payload) = FIRST_PART_LEN
    \/ verifier.idx = 1 /\ Len(Payload) = SECOND_PART_LEN

\* C13: extract_checkpoint_data accepts a payload only if its length is the
\* first-part length when part_index is 0 or the second-part length when
\* part_index is 1; a payload of any other length, for any part_index, is
\* rejected with an error: it is not accepted and the call does not panic.
C13_LengthChecked ==
    ExtractCase
        => /\ verifier.result.kind = "Ok" => LengthMatchesPart
           /\ ~LengthMatchesPart => verifier.result.kind = "Err"

\* the fields of a payload laid out as tag ++ (part << 4 | version) ++ trailing
PayloadTag == SubSeq(Payload, 1, TAG_LEN)

PayloadVersion == Payload[TAG_LEN + 1] % 16

PayloadPart == Payload[TAG_LEN + 1] \div 16

PayloadTrailing == SubSeq(Payload, TAG_LEN + 2, Len(Payload))

\* the payload was built for part 0 or part 1 with trailing bytes of the
\* length of that part
BuiltPayload ==
    /\ ExtractCase
    /\ Len(Payload) \in {FIRST_PART_LEN, SECOND_PART_LEN}
    /\ PayloadPart \in {0, 1}
    /\ Len(Payload) = (IF PayloadPart = 0 THEN FIRST_PART_LEN ELSE SECOND_PART_LEN)

\* C14: on a payload tag ++ (part << 4 | version) ++ trailing with part in
\* {0, 1} and trailing bytes of the matching length, extract_checkpoint_data
\* called with that tag, that part index and version <= CURRENT_VERSION returns
\* exactly the trailing bytes; with another tag, with a version above
\* CURRENT_VERSION, or with another part index it returns an error.
C14_CheckpointRoundTrip ==
    BuiltPayload
        => /\ (/\ verifier.tag = PayloadTag
               /\ PayloadVersion <= CURRENT_VERSION
               /\ verifier.idx = PayloadPart)
                  => /\ verifier.result.kind = "Ok"
                     /\ verifier.result.value = PayloadTrailing
           /\ verifier.tag # PayloadTag => verifier.result.kind = "Err"
           /\ PayloadVersion > CURRENT_VERSION => verifier.result.kind = "Err"
           /\ verifier.idx # PayloadPart => verifier.result.kind = "Err"

\* C14 witness: a second-part payload came back as its non-empty trailing bytes
C14_Witness ==
    /\ BuiltPayload
    /\ PayloadPart = 1
    /\ verifier.idx = 1
    /\ verifier.tag = PayloadTag
    /\ PayloadVersion <= CURRENT_VERSION
    /\ PayloadTrailing # <<>>
    /\ verifier.result = OkValue(PayloadTrailing)

\* parse_tx_info was called
ParseCase == verifier.fn = "parse_tx_info" /\ verifier.done

\* the proof is a whole number of sibling hashes
ProofIsWholeSiblings == Len(verifier.tx_info.proof) % MERKLE_PROOF_ELEM_SIZE = 0

\* the key is present and names the hash of the given header
KeyNamesHeader ==
    /\ verifier.tx_info.key.present
    /\ verifier.tx_info.key.hash = block_hash(verifier.btc_header)

\* the transaction bytes decode
TxDecodes == verifier.tx_info.transaction \notin UndecodableTx

\* the root recomputed from the transaction, the proof and the key's index is
\* the header's merkle_root
RootRecomputed ==
    MerkleFold(Txid(deserialize_tx(verifier.tx_info.transaction).value),
               chunks_exact(verifier.tx_info.proof),
               verifier.tx_info.key.index) = verifier.btc_header.merkle_root

\* C15: parse_tx_info returns the decoded transaction if and only if the proof
\* length is a multiple of the sibling-hash size, the key is present and its
\* hash is the block hash of the given header, the transaction bytes decode,
\* and the Merkle root recomputed from transaction, proof and index is the
\* header's merkle_root; in every other case it returns an error.
C15_ParseTxInfoIff ==
    ParseCase
        => LET all == /\ ProofIsWholeSiblings
                      /\ KeyNamesHeader
                      /\ TxDecodes
                      /\ RootRecomputed
           IN  /\ verifier.result.kind = "Ok" <=> all
               /\ verifier.result.kind = "Ok"
                     => verifier.result.value
                           = deserialize_tx(verifier.tx_info.transaction).value
               /\ verifier.result.kind # "Ok"
                     => /\ verifier.result.kind = "Err"
                        /\ verifier.result.value = <<>>

\* C15 witness: a transaction at an odd index under two siblings was returned
C15_Witness ==
    /\ ParseCase
    /\ Len(verifier.tx_info.proof) = 2 * MERKLE_PROOF_ELEM_SIZE
    /\ verifier.tx_info.key.present
    /\ verifier.tx_info.key.index % 2 = 1
    /\ verifier.result.kind = "Ok"
    /\ verifier.result.value.id = verifier.tx_info.transaction

\* ------------------------------------------------ claims: the rollback walk

\* the call was a fork that was accepted: its rollback walk was started
WalkCase == ForkCase /\ call.walk # <<>>

\* the positions of the walk at which the step ev was made on the header hash
StepsAt(ev, hash) ==
    {i \in 1 .. Len(call.walk) : call.walk[i] = WalkStep(ev, hash)}

\* the hashes of the headers the walk visited
Visited ==
    {call.walk[i].hash :
        i \in {j \in 1 .. Len(call.walk) : call.walk[j].ev = "remove_header"}}

\* every step ev on hash comes after some step before on hash
Precedes(before, ev, hash) ==
    \A i \in StepsAt(ev, hash) : \E j \in StepsAt(before, hash) : j < i

\* C16 as stated: in the rollback walk of an accepted fork, the entries of a
\* visited header are deleted from the header index and the height index only
\* after its parent hash has been extracted from it.
C16_DeleteAfterExtract ==
    WalkCase
        => \A hash \in Visited :
              /\ Precedes("extract_parent", "remove_header", hash)
              /\ Precedes("extract_parent", "remove_height", hash)

\* C16 as the code has it: the entries of a visited header are deleted before
\* its parent hash is extracted; the parent hash is extracted from the copy
\* of the header held in memory, which is the old tip read at the start of
\* the call or a header loaded from the index before its entries are deleted.
C16_DeleteBeforeExtractFromCopy ==
    WalkCase
        => \A hash \in Visited :
              /\ Precedes("remove_header", "extract_parent", hash)
              /\ Precedes("remove_height", "extract_parent", hash)
              /\ \/ hash = get_tip(pre).hash
                 \/ Precedes("load", "remove_header", hash)

\* C16 witness: the walk visited two headers and extracted the parent hash of
\* both, the second one loaded from the index
C16_Witness ==
    /\ WalkCase
    /\ Succeeded
    /\ Cardinality(Visited) >= 2
    /\ \A hash \in Visited : StepsAt("extract_parent", hash) # {}
    /\ \E hash \in Visited : StepsAt("load", hash) # {}

\* the call is a verified fork batch with more cumulative work than the tip:
\* the fork is accepted
AcceptedFork ==
    /\ ForkCase
    /\ CumWork(Last(call.batch).header) > CumWork(get_tip(pre).header)

\* C17: for every accepted fork the rollback walk from the old tip terminates
\* without an error, its last step is the loading of the fork point, on which
\* it stops, and the fork point's entries are removed from neither index.
C17_WalkStopsAtForkPoint ==
    AcceptedFork
        => /\ Succeeded
           /\ call.walk # <<>>
           /\ Last(call.walk) = WalkStep("load", FirstParent)
           /\ StepsAt("remove_header", FirstParent) = {}
           /\ StepsAt("remove_height", FirstParent) = {}
           /\ FirstParent \in DOMAIN storage.headers
           /\ FirstParent \in DOMAIN storage.heights

\* the first storage write of handle_new_headers was performed: the store is
\* not as it was before the call
WroteSomething == storage # pre

\* C18: with well-formed caller-supplied headers, handle_new_headers never
\* returns an error after it has performed its first storage write; in
\* particular the rollback walk of an accepted fork does not fail with
\* header-not-found or a decode error after the new fork was inserted.
C18_NoErrorAfterWrite ==
    /\ (call.op = "handle" /\ WroteSomething) => Succeeded
    /\ AcceptedFork
          => call.result.kind \notin {"BTCHeaderNotFoundError", "BTCHeaderDecodeError"}

\* C19: once the store is initialized, no header in the header index has more
\* cumulative work than the tip, and every successful handle_new_headers call
\* leaves a tip with strictly more cumulative work than the tip before it.
C19_TipHasMostWork ==
    /\ is_initialized(storage)
          => \A info \in StoredInfos(storage) :
                total_work(info) <= total_work(get_tip(storage))
    /\ (call.op = "handle" /\ is_initialized(pre) /\ Succeeded)
          => total_work(get_tip(storage)) > total_work(get_tip(pre))

\* C20: once the store is initialized, the keys of the header index are
\* exactly the hashes on the parent-pointer path from the tip back to the base
\* header: the path reaches the base, every header on it is stored, and no
\* stored header is off it.
C20_IndexIsTipToBasePath ==
    is_initialized(storage)
        => /\ PathBaseToTip(storage) # {}
           /\ DOMAIN storage.headers = PathBaseToTip(storage)

\* ------------------------------------------------- claims: batch splitting

\* the headers of the block tree from the header stop (or from the root, when
\* stop is no ancestor) down to the raw header, in chain order
RECURSIVE ChainSeqOf(_, _)
ChainSeqOf(raw, stop) ==
    IF raw = 0 THEN <<>>
    ELSE IF raw = stop THEN <<InfoOf(raw)>>
    ELSE ChainSeqOf(ParentOf[raw], stop) \o <<InfoOf(raw)>>

\* the chain from the base header to the tip of a store
StoredChain(s) == ChainSeqOf(get_tip(s).header, get_base_header(s).header)

\* the store is exactly what init of its own base-to-tip chain leaves on an
\* empty store
FreshlyInitialized(s) ==
    /\ is_initialized(s)
    /\ init(NoStore, w, StoredChain(s)) = [s |-> s, res |-> Ok]

\* the call is handle_new_headers(H[k..]) on the store init(H[0..k]) left,
\* for a valid linked chain H
SplitInitCase ==
    /\ call.op = "handle"
    /\ call.batch # <<>>
    /\ FreshlyInitialized(pre)
    /\ ValidChain(StoredChain(pre) \o call.batch)

\* the call is an extension of the tip by a verified batch
ExtensionCase ==
    /\ HandleCase
    /\ FirstParent = get_tip(pre).hash
    /\ LinkedFrom(get_tip(pre).hash, call.batch)

\* C21: init(H[0..k]) followed by handle_new_headers(H[k..]) succeeds and
\* leaves the tip, header index and height index that init(H) alone leaves;
\* and an extension of the tip by N1 followed by one by N2 succeeds and leaves
\* the store that the one extension by N1 ++ N2 leaves.
C21_BatchSplitEquivalence ==
    /\ SplitInitCase
          => LET whole == init(NoStore, w, StoredChain(pre) \o call.batch)
             IN  /\ Succeeded
                 /\ whole.res = Ok
                 /\ storage.tip = whole.s.tip
                 /\ storage.headers = whole.s.headers
                 /\ storage.heights = whole.s.heights
                 /\ get_tip(storage) = Last(call.batch)
                 /\ AllQueryable(storage, StoredChain(pre) \o call.batch)
    /\ ExtensionCase
          => \A i \in 1 .. Len(call.batch) - 1 :
                LET first  == handle_btc_headers_from_babylon(
                                  pre, SubSeq(call.batch, 1, i))
                    second == handle_btc_headers_from_babylon(
                                  first.s,
                                  SubSeq(call.batch, i + 1, Len(call.batch)))
                IN  /\ Succeeded
                    /\ first.res = Ok
                    /\ second.res = Ok
                    /\ second.s = storage

\* C21 witness: a store initialized with w + 1 headers was extended by a batch
\* of two headers, which splits into two extensions
C21_Witness ==
    /\ SplitInitCase
    /\ ExtensionCase
    /\ Len(StoredChain(pre)) = w + 1
    /\ Len(call.batch) >= 2
    /\ Succeeded
    /\ get_tip(storage) = Last(call.batch)

============================================================================
